---------------------------- MODULE Spec2Model ----------------------------
(***************************************************************************)
(* A model of the relationship-graph builder                                *)
(* (data_fetchers/companies_house_fetcher.py, build_company_network) and   *)
(* of the network analyzer (detection/network_analyzer.py).                 *)
(*                                                                          *)
(* Conventions.  A Python dict or record is a TLA+ record with a "kind"    *)
(* field; Python's None is NoneVal; a list is a sequence.  Numbers that     *)
(* are floats in [0,1] in the program (strengths, thresholds, scores) are   *)
(* integers in hundredths here: 0.7 is 70.  A networkx Graph is a record   *)
(* [nodes, attr, edges]: nodes is the node insertion order, attr the node   *)
(* attributes, edges a function from the unordered pair {u, v} to the one   *)
(* attribute record that nx.Graph keeps for that pair.                      *)
(*                                                                          *)
(* The numbers the libraries compute on the graph (betweenness, PageRank,   *)
(* the anomaly scores of the numpy pipeline) are not computed here: lib     *)
(* holds one of the outcomes the libraries can return, fixed for a graph.   *)
(* community.best_partition is randomized, so its result is chosen anew in  *)
(* every call.  Girvan-Newman's first level is computed.                    *)
(***************************************************************************)
EXTENDS Integers, Sequences, FiniteSets, TLC

VARIABLES
    companies_data,      \* the argument of build_company_network
    G,                   \* the graph: built by the fetcher, read by the analyzer
    pc,                  \* builder: "input" | "built" | "rebuilt";
                         \* analyzer: "ready" | "metrics" | "ranked" | "raised"
    lib,                 \* what the numeric libraries compute for G
    louvain,             \* community.best_partition's result in the last call
    risk_threshold,      \* the argument of get_high_risk_entities, when that
                         \* was the last call
    metrics,             \* the NetworkMetrics bundle of the last call, or
                         \* the exception that left it
    high_risk_entities   \* the list returned, when the last call was
                         \* get_high_risk_entities

analyzer_vars == <<lib, louvain, risk_threshold, metrics, high_risk_entities>>

vars == <<companies_data, G, pc, lib, louvain, risk_threshold, metrics,
          high_risk_entities>>

----------------------------------------------------------------------------
(* Python values                                                            *)

NoneVal == [kind |-> "None"]

EmptyDict == [kind |-> "emptydict"]

\* Python truthiness of a profile or an address: None and {} are falsy.
Truthy(x) == x.kind = "dict"

\* The empty function: an empty Python dict keyed by arbitrary values.
EmptyMap == [x \in {} |-> NoneVal]

\* e appended to the insertion-ordered, duplicate-free sequence s: set.add(e).
SetAdd(s, e) == IF \E i \in 1..Len(s) : s[i] = e THEN s ELSE Append(s, e)

Range(s) == {s[i] : i \in 1..Len(s)}

----------------------------------------------------------------------------
(* nx.Graph                                                                 *)

EmptyGraph == [nodes |-> <<>>, attr |-> EmptyMap, edges |-> EmptyMap]

NodeSet(g) == Range(g.nodes)

\* G.add_node(n, **a): a new node is appended to the node order; the
\* attributes of an existing node are replaced.
add_node(g, n, a) ==
    [g EXCEPT !.nodes = SetAdd(@, n),
              !.attr  = (n :> a) @@ @]

\* The attribute record of a node that add_edge creates on the fly.
NoAttr == [kind |-> "noattr"]

\* An endpoint of add_edge that is no node yet becomes one, without attributes.
touch_node(g, n) == IF n \in NodeSet(g) THEN g ELSE add_node(g, n, NoAttr)

\* G.add_edge(u, v, relationship_type=t, strength=s) on an nx.Graph: one
\* attribute record per unordered pair, the latest call overwriting.
add_edge_overwrite(g, u, v, t, s) ==
    LET g2 == touch_node(touch_node(g, u), v)
    IN  [g2 EXCEPT !.edges =
            ({u, v} :> [relationship_type |-> t, strength |-> s]) @@ @]

\* A variant that keeps the first attribute record of a pair.
add_edge_keep_first(g, u, v, t, s) ==
    LET g2 == touch_node(touch_node(g, u), v)
    IN  [g2 EXCEPT !.edges =
            @ @@ ({u, v} :> [relationship_type |-> t, strength |-> s])]

add_edge(g, u, v, t, s) == add_edge_overwrite(g, u, v, t, s)

\* The edges as an unordered set of {pair, type, strength} triples.
TypedEdgeSet(g) ==
    {[pair |-> p, relationship_type |-> g.edges[p].relationship_type,
      strength |-> g.edges[p].strength] : p \in DOMAIN g.edges}

----------------------------------------------------------------------------
(* CompaniesHouseFetcher: the three grouping rules                          *)

SharedDirectorStrength == 70

SharedAddressStrength == 60

SharedPscStrength == 80

\* officer.get('date_of_birth', {}).get(part): 0 stands for None.
birth_part(officer, part) ==
    IF officer.date_of_birth.kind = "dict"
    THEN (IF part = "month" THEN officer.date_of_birth.month
                            ELSE officer.date_of_birth.year)
    ELSE 0

\* A key that drops the birth month and year.
director_key_name_only(officer) == <<officer.name, 0, 0>>

director_key(officer) ==
    <<officer.name, birth_part(officer, "month"), birth_part(officer, "year")>>

address_key(address) == <<address.address_line_1, address.postal_code>>

\* A grouping dict (key -> set of company numbers) is the sequence of its
\* entries in insertion order; each set keeps its insertion order too.
dict_add(d, k, company_number) ==
    IF \E i \in 1..Len(d) : d[i].key = k
    THEN [i \in 1..Len(d) |->
            IF d[i].key = k
            THEN [d[i] EXCEPT !.companies = SetAdd(@, company_number)]
            ELSE d[i]]
    ELSE Append(d, [key |-> k, companies |-> <<company_number>>])

\* The company number a bundle is grouped under, or "skip":
\* "if not profile: continue".
grouped_as(data_i) ==
    IF Truthy(data_i.profile) THEN data_i.profile.company_number ELSE "skip"

RECURSIVE add_officers(_, _, _, _)
add_officers(d, company_number, officers, k) ==
    IF k > Len(officers) THEN d
    ELSE add_officers(dict_add(d, director_key(officers[k]), company_number),
                      company_number, officers, k + 1)

RECURSIVE director_companies(_, _, _)
director_companies(data, i, d) ==
    IF i > Len(data) THEN d
    ELSE IF grouped_as(data[i]) = "skip" THEN director_companies(data, i + 1, d)
    ELSE director_companies(data, i + 1,
            add_officers(d, grouped_as(data[i]), data[i].officers, 1))

RECURSIVE address_companies(_, _, _)
address_companies(data, i, d) ==
    IF i > Len(data) THEN d
    ELSE IF grouped_as(data[i]) = "skip" THEN address_companies(data, i + 1, d)
    ELSE LET address == data[i].profile.registered_office_address
         IN  address_companies(data, i + 1,
                IF Truthy(address)
                THEN dict_add(d, address_key(address), grouped_as(data[i]))
                ELSE d)

RECURSIVE add_pscs(_, _, _, _)
add_pscs(d, company_number, psc, k) ==
    IF k > Len(psc) THEN d
    ELSE add_pscs(IF psc[k].kind = "corporate-entity"
                  THEN dict_add(d, psc[k].name, company_number)
                  ELSE d,
                  company_number, psc, k + 1)

RECURSIVE psc_companies(_, _, _)
psc_companies(data, i, d) ==
    IF i > Len(data) THEN d
    ELSE IF grouped_as(data[i]) = "skip" THEN psc_companies(data, i + 1, d)
    ELSE psc_companies(data, i + 1,
            add_pscs(d, grouped_as(data[i]), data[i].psc, 1))

\* A variant whose inner loop starts at i itself after the first row:
\* for j in range(i, len(companies)), which pairs a company with itself.
RECURSIVE pairs_from_with_self(_, _, _)
pairs_from_with_self(n, i, j) ==
    IF i > n THEN <<>>
    ELSE IF j > n THEN pairs_from_with_self(n, i + 1, i + 1)
    ELSE <<(<<i, j>>)>> \o pairs_from_with_self(n, i, j + 1)

\* The index pairs the nested loops visit, in loop order:
\* for i in range(len(companies)): for j in range(i+1, len(companies)).
RECURSIVE pairs_from(_, _, _)
pairs_from(n, i, j) ==
    IF i > n THEN <<>>
    ELSE IF j > n THEN pairs_from(n, i + 1, i + 2)
    ELSE <<(<<i, j>>)>> \o pairs_from(n, i, j + 1)

\* A variant that links only the first member of the group to the others.
group_pairs_first_only(companies) ==
    [j \in 1..(Len(companies) - 1) |-> <<1, j + 1>>]

group_pairs(companies) == pairs_from(Len(companies), 1, 2)

RECURSIVE link_pairs(_, _, _, _, _, _)
link_pairs(g, companies, pairs, k, t, s) ==
    IF k > Len(pairs) THEN g
    ELSE link_pairs(add_edge(g, companies[pairs[k][1]], companies[pairs[k][2]], t, s),
                    companies, pairs, k + 1, t, s)

\* for companies in d.values(): if len(companies) > 1: link every pair.
RECURSIVE add_group_edges(_, _, _, _, _)
add_group_edges(g, d, k, t, s) ==
    IF k > Len(d) THEN g
    ELSE add_group_edges(
            IF Len(d[k].companies) > 1
            THEN link_pairs(g, d[k].companies, group_pairs(d[k].companies), 1, t, s)
            ELSE g,
            d, k + 1, t, s)

add_director_relationships(g, data) ==
    add_group_edges(g, director_companies(data, 1, <<>>), 1,
                    "shared_director", SharedDirectorStrength)

add_address_relationships(g, data) ==
    add_group_edges(g, address_companies(data, 1, <<>>), 1,
                    "shared_address", SharedAddressStrength)

add_psc_relationships(g, data) ==
    add_group_edges(g, psc_companies(data, 1, <<>>), 1,
                    "shared_psc", SharedPscStrength)

\* The node attributes build_company_network stores (those the analyses read).
node_attributes(data_i) ==
    [kind |-> "dict",
     incorporation_date |-> data_i.profile.date_of_creation,
     registered_office |-> data_i.profile.registered_office_address,
     directors |-> data_i.officers,
     psc |-> data_i.psc]

\* A variant without the "if profile:" test: a bundle without a profile
\* becomes a node keyed None.
RECURSIVE add_company_nodes_unchecked(_, _, _)
add_company_nodes_unchecked(g, data, i) ==
    IF i > Len(data) THEN g
    ELSE add_company_nodes_unchecked(
            IF Truthy(data[i].profile)
            THEN add_node(g, data[i].profile.company_number, node_attributes(data[i]))
            ELSE add_node(g, "None", NoAttr),
            data, i + 1)

RECURSIVE add_company_nodes(_, _, _)
add_company_nodes(g, data, i) ==
    IF i > Len(data) THEN g
    ELSE add_company_nodes(
            IF Truthy(data[i].profile)
            THEN add_node(g, data[i].profile.company_number, node_attributes(data[i]))
            ELSE g,
            data, i + 1)

build_company_network(data) ==
    add_psc_relationships(
        add_address_relationships(
            add_director_relationships(
                add_company_nodes(EmptyGraph, data, 1), data), data), data)

----------------------------------------------------------------------------
(* The entity bundles the builder is run on                                 *)

MaxBundles == 3

JohnJan == [name |-> "John Smith",
            date_of_birth |-> [kind |-> "dict", month |-> 1, year |-> 1970]]

\* Same name and birth year as JohnJan, another birth month.
JohnFeb == [name |-> "John Smith",
            date_of_birth |-> [kind |-> "dict", month |-> 2, year |-> 1970]]

HighSt == [kind |-> "dict", address_line_1 |-> "1 High St", postal_code |-> "AB1 2CD"]

\* Same first line as HighSt, another postal code.
HighStElsewhere ==
    [kind |-> "dict", address_line_1 |-> "1 High St", postal_code |-> "ZY9 8XW"]

HoldCo == [kind |-> "corporate-entity", name |-> "HoldCo Ltd"]

\* A natural person with the name of the corporate PSC.
HoldCoPerson == [kind |-> "individual-person-with-significant-control",
                 name |-> "HoldCo Ltd"]

Profile(company_number, address) ==
    [kind |-> "dict", company_number |-> company_number,
     date_of_creation |-> "2024-01-15", registered_office_address |-> address]

Bundle(profile, officers, psc) ==
    [profile |-> profile, officers |-> officers, psc |-> psc]

\* For the first company number, every combination of {no officer, JohnJan}
\* x {no address, HighSt} x {no PSC, HoldCo}; for the other two, the
\* combinations that make a pair qualify under one, two or three rules; the
\* near-miss values (another birth month, another postal code, an empty
\* address dict, a PSC that is no corporate entity); and a bundle whose
\* profile is None but whose officers and PSC match the others'.
Bundles ==
    {Bundle(Profile("00000001", a), o, p) :
        a \in {NoneVal, HighSt}, o \in {<<>>, <<JohnJan>>}, p \in {<<>>, <<HoldCo>>}}
    \cup {Bundle(Profile("00000002", NoneVal), <<JohnJan>>, <<>>),
          Bundle(Profile("00000002", HighSt), <<>>, <<>>),
          Bundle(Profile("00000002", NoneVal), <<>>, <<HoldCo>>),
          Bundle(Profile("00000002", HighSt), <<JohnJan>>, <<>>),
          Bundle(Profile("00000002", HighSt), <<JohnJan>>, <<HoldCo>>),
          Bundle(Profile("00000003", NoneVal), <<JohnJan>>, <<>>),
          Bundle(Profile("00000003", HighSt), <<JohnJan>>, <<HoldCo>>)}
    \cup {Bundle(Profile("00000001", HighStElsewhere), <<JohnFeb>>, <<HoldCoPerson>>),
          Bundle(Profile("00000002", EmptyDict), <<JohnFeb, JohnJan>>,
                 <<HoldCoPerson, HoldCo>>),
          Bundle(Profile("00000003", EmptyDict), <<>>, <<>>),
          Bundle(NoneVal, <<JohnJan>>, <<HoldCo>>)}

----------------------------------------------------------------------------
(* The builder as a state machine                                           *)

InitBuild ==
    /\ companies_data = <<>>
    /\ G = EmptyGraph
    /\ pc = "input"
    /\ lib = NoneVal
    /\ louvain = NoneVal
    /\ risk_threshold = 0
    /\ metrics = NoneVal
    /\ high_risk_entities = <<>>

\* The caller assembles the argument.
AddBundle ==
    /\ pc = "input"
    /\ Len(companies_data) < MaxBundles
    /\ \E b \in Bundles : companies_data' = Append(companies_data, b)
    /\ UNCHANGED <<G, pc>>
    /\ UNCHANGED analyzer_vars

\* build_company_network(companies_data), the whole call.
BuildCompanyNetwork ==
    /\ pc = "input"
    /\ G' = build_company_network(companies_data)
    /\ pc' = "built"
    /\ UNCHANGED companies_data
    /\ UNCHANGED analyzer_vars

\* The same bundles in another order (two neighbours swapped), built again.
BuildPermuted ==
    /\ pc \in {"built", "rebuilt"}
    /\ \E i \in 1..(Len(companies_data) - 1) :
          companies_data' = [companies_data EXCEPT ![i] = companies_data[i + 1],
                                                   ![i + 1] = companies_data[i]]
    /\ G' = build_company_network(companies_data')
    /\ pc' = "rebuilt"
    /\ UNCHANGED analyzer_vars

NextBuild == AddBundle \/ BuildCompanyNetwork \/ BuildPermuted

SpecBuild == InitBuild /\ [][NextBuild]_vars

----------------------------------------------------------------------------
(* What the builder's claims speak of, stated on the input alone            *)

Built == pc \in {"built", "rebuilt"}

PresentBundles(data) == {b \in Range(data) : Truthy(b.profile)}

PresentCompanyNumbers(data) ==
    {b.profile.company_number : b \in PresentBundles(data)}

BundlesOf(data, c) == {b \in PresentBundles(data) : b.profile.company_number = c}

\* Two officers with the same (name, birth month, birth year).
SameDirector(o1, o2) ==
    /\ o1.name = o2.name
    /\ o1.date_of_birth = o2.date_of_birth

SharesDirector(data, u, v) ==
    \E bu \in BundlesOf(data, u), bv \in BundlesOf(data, v) :
        \E i \in 1..Len(bu.officers), j \in 1..Len(bv.officers) :
            SameDirector(bu.officers[i], bv.officers[j])

\* Two non-empty registered offices with the same (line 1, postal code).
SharesAddress(data, u, v) ==
    \E bu \in BundlesOf(data, u), bv \in BundlesOf(data, v) :
        LET au == bu.profile.registered_office_address
            av == bv.profile.registered_office_address
        IN  /\ au.kind = "dict" /\ av.kind = "dict"
            /\ au.address_line_1 = av.address_line_1
            /\ au.postal_code = av.postal_code

SharesPsc(data, u, v) ==
    \E bu \in BundlesOf(data, u), bv \in BundlesOf(data, v) :
        \E i \in 1..Len(bu.psc), j \in 1..Len(bv.psc) :
            /\ bu.psc[i].kind = "corporate-entity"
            /\ bv.psc[j].kind = "corporate-entity"
            /\ bu.psc[i].name = bv.psc[j].name

SharesAny(data, u, v) ==
    SharesDirector(data, u, v) \/ SharesAddress(data, u, v) \/ SharesPsc(data, u, v)

\* The graph holds an edge between u and v with this type and strength.
HasTypedEdge(g, u, v, t, s) ==
    /\ {u, v} \in DOMAIN g.edges
    /\ g.edges[{u, v}] = [relationship_type |-> t, strength |-> s]

\* The number of rules under which the pair qualifies.
RulesProposing(data, u, v) ==
    (IF SharesDirector(data, u, v) THEN 1 ELSE 0)
    + (IF SharesAddress(data, u, v) THEN 1 ELSE 0)
    + (IF SharesPsc(data, u, v) THEN 1 ELSE 0)

\* C1: after build_company_network, two distinct entities with present
\* profiles are joined by an edge iff they share a director key, an address
\* key or a corporate PSC name, and for every rule under which the pair
\* qualifies the pair's edge carries that rule's type and strength.
C1_EdgeIffSharedKeyWithRuleAttributes ==
    Built =>
        \A u \in PresentCompanyNumbers(companies_data),
           v \in PresentCompanyNumbers(companies_data) :
            u # v =>
                /\ ({u, v} \in DOMAIN G.edges) <=> SharesAny(companies_data, u, v)
                /\ SharesDirector(companies_data, u, v) =>
                      HasTypedEdge(G, u, v, "shared_director", 70)
                /\ SharesAddress(companies_data, u, v) =>
                      HasTypedEdge(G, u, v, "shared_address", 60)
                /\ SharesPsc(companies_data, u, v) =>
                      HasTypedEdge(G, u, v, "shared_psc", 80)

\* The edge-existence half of C1 alone (it holds of the builder).
EdgeIffSharedKey ==
    Built =>
        /\ \A p \in DOMAIN G.edges :
              /\ p \subseteq PresentCompanyNumbers(companies_data)
              /\ Cardinality(p) = 2
        /\ \A u \in PresentCompanyNumbers(companies_data),
              v \in PresentCompanyNumbers(companies_data) :
              u # v =>
                 (({u, v} \in DOMAIN G.edges) <=> SharesAny(companies_data, u, v))

\* The bundles with a present profile, in their input order.
RECURSIVE WithProfile(_)
WithProfile(data) ==
    IF data = <<>> THEN <<>>
    ELSE (IF Truthy(Head(data).profile) THEN <<Head(data)>> ELSE <<>>)
         \o WithProfile(Tail(data))

\* C2: a bundle without a profile is skipped: the nodes are exactly the
\* company numbers of the bundles with a profile, every edge joins two
\* entities that share a key through bundles with a profile, and the graph
\* is the one built from the input with the profile-less bundles removed.
C2_AbsentProfileSkipped ==
    Built =>
        /\ NodeSet(G) = PresentCompanyNumbers(companies_data)
        /\ \A p \in DOMAIN G.edges :
              \E u \in p, v \in p : u # v /\ SharesAny(companies_data, u, v)
        /\ G = build_company_network(WithProfile(companies_data))

\* C2's case: the input holds a profile-less bundle whose officer is also an
\* officer of exactly one entity with a profile, and the graph, built, has
\* that entity as a node and no edge.
C2_Witness ==
    /\ pc = "built"
    /\ \E i \in 1..Len(companies_data), j \in 1..Len(companies_data) :
          /\ ~Truthy(companies_data[i].profile)
          /\ companies_data[i].officers = <<JohnJan>>
          /\ Truthy(companies_data[j].profile)
          /\ companies_data[j].officers = <<JohnJan>>
          /\ companies_data[j].profile.company_number \in NodeSet(G)
    /\ Cardinality(PresentCompanyNumbers(companies_data)) = 1
    /\ DOMAIN G.edges = {}

\* C3: building the same bundles in another order yields the same set of
\* {pair, type, strength} triples.
C3_EdgeSetOrderIndependent ==
    [][(Built /\ pc' = "rebuilt") => TypedEdgeSet(G') = TypedEdgeSet(G)]_vars

\* C3's case: a rebuilt graph of three different entities in which one pair
\* qualifies under more than one rule and another pair under none.
C3_Witness ==
    /\ pc = "rebuilt"
    /\ Cardinality(PresentCompanyNumbers(companies_data)) = 3
    /\ \E u \in NodeSet(G), v \in NodeSet(G) :
          u # v /\ RulesProposing(companies_data, u, v) >= 2
    /\ \E u \in NodeSet(G), v \in NodeSet(G) :
          u # v /\ {u, v} \notin DOMAIN G.edges
    /\ companies_data[1] # companies_data[2]

\* C4: when several rules propose an edge for one pair, the graph holds one
\* typed edge per proposing rule for that pair.
C4_OneTypedEdgePerRule ==
    Built =>
        \A u \in NodeSet(G), v \in NodeSet(G) :
            (u # v /\ RulesProposing(companies_data, u, v) >= 2) =>
                /\ SharesDirector(companies_data, u, v) =>
                      HasTypedEdge(G, u, v, "shared_director", 70)
                /\ SharesAddress(companies_data, u, v) =>
                      HasTypedEdge(G, u, v, "shared_address", 60)
                /\ SharesPsc(companies_data, u, v) =>
                      HasTypedEdge(G, u, v, "shared_psc", 80)

\* C24: every edge of the built graph joins two distinct entity identifiers
\* that are both nodes created from a present profile (no self-loop, no
\* endpoint that only an edge introduced), its relationship_type is one of
\* shared_director, shared_address, shared_psc, ownership, control, and its
\* strength lies in [0, 1] (0..100 in hundredths).
C24_EdgesWellFormed ==
    Built =>
        \A p \in DOMAIN G.edges :
            /\ Cardinality(p) = 2
            /\ p \subseteq PresentCompanyNumbers(companies_data)
            /\ \A u \in p : u \in NodeSet(G) /\ G.attr[u] # NoAttr
            /\ G.edges[p].relationship_type \in
                  {"shared_director", "shared_address", "shared_psc",
                   "ownership", "control"}
            /\ G.edges[p].strength \in 0..100

\* C24's case: a built graph with an edge, from an input in which a bundle
\* without a profile carries the officer the two joined entities share.
C24_Witness ==
    /\ pc = "built"
    /\ DOMAIN G.edges # {}
    /\ \E i \in 1..Len(companies_data) :
          /\ ~Truthy(companies_data[i].profile)
          /\ \E p \in DOMAIN G.edges : \A u \in p :
                \E b \in BundlesOf(companies_data, u) :
                    \E k \in 1..Len(b.officers) :
                        b.officers[k] \in Range(companies_data[i].officers)
    /\ Cardinality(PresentCompanyNumbers(companies_data)) = 2

\* C27: the built graph holds at most one edge per unordered pair; a pair
\* that qualifies under several rules carries the type and strength of the
\* last of them in the order director, address, PSC: shared_psc 0.8 if it
\* shares a corporate PSC, else shared_address 0.6 if it shares an address,
\* else shared_director 0.7; whatever the order of the input bundles.
C27_LastRuleWins ==
    Built =>
        /\ Cardinality(TypedEdgeSet(G)) = Cardinality(DOMAIN G.edges)
        /\ \A u \in PresentCompanyNumbers(companies_data),
              v \in PresentCompanyNumbers(companies_data) :
              (u # v /\ SharesAny(companies_data, u, v)) =>
                  IF SharesPsc(companies_data, u, v)
                  THEN HasTypedEdge(G, u, v, "shared_psc", SharedPscStrength)
                  ELSE IF SharesAddress(companies_data, u, v)
                  THEN HasTypedEdge(G, u, v, "shared_address", SharedAddressStrength)
                  ELSE HasTypedEdge(G, u, v, "shared_director", SharedDirectorStrength)

\* C27's case: a graph built from reordered bundles in which one pair
\* qualifies under all three rules and holds the PSC edge, and another pair
\* qualifies under the director and the address rule only and holds the
\* address edge.
C27_Witness ==
    /\ pc = "rebuilt"
    /\ \E u \in NodeSet(G), v \in NodeSet(G) :
          /\ u # v
          /\ RulesProposing(companies_data, u, v) = 3
          /\ HasTypedEdge(G, u, v, "shared_psc", 80)
    /\ \E u \in NodeSet(G), v \in NodeSet(G) :
          /\ u # v
          /\ RulesProposing(companies_data, u, v) = 2
          /\ ~SharesPsc(companies_data, u, v)
          /\ HasTypedEdge(G, u, v, "shared_address", 60)

----------------------------------------------------------------------------
(* Reading an nx.Graph                                                      *)

\* self.graph.nodes(): the nodes in insertion order.
graph_nodes(g) == g.nodes

NodeIndex(g, v) == CHOOSE i \in 1..Len(g.nodes) : g.nodes[i] = v

Adjacent(g, u, v) == u # v /\ {u, v} \in DOMAIN g.edges

Neighbours(g, u) == {v \in NodeSet(g) : Adjacent(g, u, v)}

RECURSIVE ReachableFrom(_, _)
ReachableFrom(g, S) ==
    LET T == S \cup {v \in NodeSet(g) : \E u \in S : Adjacent(g, u, v)}
    IN  IF T = S THEN S ELSE ReachableFrom(g, T)

\* nx.connected_components: the components in the order of their first node.
RECURSIVE components_from(_, _, _)
components_from(g, i, seen) ==
    IF i > Len(g.nodes) THEN <<>>
    ELSE IF g.nodes[i] \in seen THEN components_from(g, i + 1, seen)
    ELSE LET c == ReachableFrom(g, {g.nodes[i]})
         IN  <<c>> \o components_from(g, i + 1, seen \cup c)

connected_components(g) == components_from(g, 1, {})

\* S induces a connected subgraph of g.
InducedConnected(g, S) ==
    \/ S = {}
    \/ LET sub == [g EXCEPT !.edges =
                        [p \in {q \in DOMAIN g.edges : q \subseteq S} |-> g.edges[p]]]
       IN  ReachableFrom(sub, {CHOOSE u \in S : TRUE}) = S

\* The elements of a set of node lists as a list, shorter lists first and
\* lists of one length in the order of their node positions.
ListKey(g, c) ==
    LET n == Len(g.nodes) + 1
        RECURSIVE key(_, _)
        key(i, acc) == IF i > Len(c) THEN acc
                       ELSE key(i + 1, acc * n + NodeIndex(g, c[i]))
    IN  key(1, Len(c))

RECURSIVE ListsInOrder(_, _)
ListsInOrder(g, S) ==
    IF S = {} THEN <<>>
    ELSE LET c == CHOOSE x \in S : \A y \in S : ListKey(g, x) <= ListKey(g, y)
         IN  <<c>> \o ListsInOrder(g, S \ {c})

\* nx.simple_cycles on an undirected graph: every simple cycle of three or
\* more nodes once, as a node list (here from its first node in node order
\* towards the earlier of that node's two cycle neighbours).
RECURSIVE cycles_from(_, _, _, _)
cycles_from(g, paths, k, found) ==
    IF paths = {} THEN found
    ELSE LET closed == {p \in paths :
                          /\ k >= 3
                          /\ Adjacent(g, p[k], p[1])
                          /\ NodeIndex(g, p[2]) < NodeIndex(g, p[k])}
             longer == UNION {{Append(p, w) :
                                w \in {v \in Neighbours(g, p[k]) :
                                        /\ NodeIndex(g, p[1]) < NodeIndex(g, v)
                                        /\ v \notin Range(p)}} : p \in paths}
         IN  cycles_from(g, longer, k + 1, found \cup closed)

simple_cycles(g) ==
    ListsInOrder(g, cycles_from(g, {<<v>> : v \in NodeSet(g)}, 1, {}))

----------------------------------------------------------------------------
(* NetworkAnalyzer                                                          *)

\* self.risk_threshold, in hundredths.
RiskThreshold == 75

\* A float that is not a number.
NaN == -1

\* Python's x > t on floats: False when x is NaN.
FloatGt(x, t) == x # NaN /\ x > t

\* Python's x < y on floats: False when either is NaN.
FloatLt(x, y) == x # NaN /\ y # NaN /\ x < y

\* _calculate_centrality_metrics: one dict per node of the graph, holding the
\* library's measures (the two the ranking reads are kept).
calculate_centrality_metrics(g, l) ==
    [node \in Range(graph_nodes(g)) |->
        [betweenness |-> l.betweenness[node], pagerank |-> l.pagerank[node]]]

\* label_prop_communities is keyed by enumerate's position, never by a node:
\* label_prop_communities.get(node, 0) is the default for a node that is a
\* string.
label_prop_get(node) == 0

\* len(self.graph) below which Girvan-Newman is run.
GirvanNewmanLimit == 1000

Count(communities, x) ==
    Cardinality({i \in 1..Len(communities) : communities[i] = x})

\* max(set(communities), key=communities.count): the first of the most
\* frequent labels in the set's iteration order, which for small
\* non-negative integers (below 8) is ascending.
most_common(communities) ==
    CHOOSE x \in Range(communities) :
        \A y \in Range(communities) :
            \/ Count(communities, x) > Count(communities, y)
            \/ Count(communities, x) = Count(communities, y) /\ x <= y

\* _detect_communities, given best_partition's result lv.
detect_communities(g, l, lv) ==
    LET gn_communities ==
            IF Len(g.nodes) < GirvanNewmanLimit THEN l.girvan_newman ELSE lv
    IN  [node \in Range(graph_nodes(g)) |->
            most_common(<<lv[node], label_prop_get(node), gn_communities[node]>>)]

StrengthSum(g, cycle) ==
    LET RECURSIVE sum(_)
        sum(i) == IF i > Len(cycle) THEN 0
                  ELSE g.edges[{cycle[i], cycle[(i % Len(cycle)) + 1]}].strength
                       + sum(i + 1)
    IN  sum(1)

\* _calculate_cycle_risk(cycle) > threshold, the risk being the mean strength
\* of the cycle's edges.
cycle_risk_above(g, cycle, threshold) ==
    StrengthSum(g, cycle) > threshold * Len(cycle)

\* A variant that keeps every cycle of three or more nodes.
detect_suspicious_cycles_any_risk(g) ==
    SelectSeq(simple_cycles(g), LAMBDA cycle : Len(cycle) >= 3)

\* A variant that looks at cycles of more than three nodes only.
detect_suspicious_cycles_longer_only(g) ==
    SelectSeq(simple_cycles(g),
              LAMBDA cycle : Len(cycle) > 3 /\ cycle_risk_above(g, cycle, RiskThreshold))

\* _detect_suspicious_cycles
detect_suspicious_cycles(g) ==
    SelectSeq(simple_cycles(g),
              LAMBDA cycle : Len(cycle) >= 3 /\ cycle_risk_above(g, cycle, RiskThreshold))

\* _find_circular_ownership: the cycles of three or more entities whose risk
\* exceeds the threshold.
find_circular_ownership(g) == detect_suspicious_cycles(g)

\* The least number of spokes of a hub.
HubMinSpokes == 3

\* _identify_hub_spoke_patterns: hub -> spokes, for every node joined by
\* control or ownership edges to at least HubMinSpokes nodes that are not
\* joined to one another; as a list of [hub, spokes] items in node order.
identify_hub_spoke_patterns(g) ==
    LET Spokes(h) ==
            LET cand == {v \in Neighbours(g, h) :
                            g.edges[{h, v}].relationship_type \in {"control", "ownership"}}
            IN  {v \in cand : \A w \in cand : ~Adjacent(g, v, w)}
        SpokeList(h) == SelectSeq(g.nodes, LAMBDA v : v \in Spokes(h))
        items == [i \in 1..Len(g.nodes) |->
                    [hub |-> g.nodes[i], spokes |-> SpokeList(g.nodes[i])]]
    IN  SelectSeq(items, LAMBDA it : Len(it.spokes) >= HubMinSpokes)

\* _analyze_network_growth: no growth rule is given; no pattern.
analyze_network_growth(g) == <<>>

\* The largest component reported as an isolated subgroup.
IsolatedMaxSize == 3

\* _identify_isolated_subgroups: the connected components of 2 to
\* IsolatedMaxSize nodes, each as a node list in node order.
identify_isolated_subgroups(g) ==
    LET comps == connected_components(g)
        lists == [i \in 1..Len(comps) |->
                    SelectSeq(g.nodes, LAMBDA v : v \in comps[i])]
    IN  SelectSeq(lists, LAMBDA c : Len(c) >= 2 /\ Len(c) <= IsolatedMaxSize)

\* A variant that rates hub-and-spoke structures like circular ownership.
identify_risk_patterns_hubs_high(g) ==
    LET circular == find_circular_ownership(g)
        hub_spoke == identify_hub_spoke_patterns(g)
        isolated == identify_isolated_subgroups(g)
    IN  [i \in 1..Len(circular) |->
            [type |-> "circular_ownership", entities |-> circular[i],
             risk_level |-> "high"]]
        \o [i \in 1..Len(hub_spoke) |->
            [type |-> "hub_spoke", hub |-> hub_spoke[i].hub,
             spokes |-> hub_spoke[i].spokes, risk_level |-> "high"]]
        \o analyze_network_growth(g)
        \o [i \in 1..Len(isolated) |->
            [type |-> "isolated_subgroup", entities |-> isolated[i],
             risk_level |-> "medium"]]

\* A variant that rates isolated subgroups like circular ownership.
identify_risk_patterns_isolated_high(g) ==
    LET circular == find_circular_ownership(g)
        hub_spoke == identify_hub_spoke_patterns(g)
        isolated == identify_isolated_subgroups(g)
    IN  [i \in 1..Len(circular) |->
            [type |-> "circular_ownership", entities |-> circular[i],
             risk_level |-> "high"]]
        \o [i \in 1..Len(hub_spoke) |->
            [type |-> "hub_spoke", hub |-> hub_spoke[i].hub,
             spokes |-> hub_spoke[i].spokes, risk_level |-> "medium"]]
        \o analyze_network_growth(g)
        \o [i \in 1..Len(isolated) |->
            [type |-> "isolated_subgroup", entities |-> isolated[i],
             risk_level |-> "high"]]

\* _identify_risk_patterns
identify_risk_patterns(g) ==
    LET circular == find_circular_ownership(g)
        hub_spoke == identify_hub_spoke_patterns(g)
        isolated == identify_isolated_subgroups(g)
    IN  [i \in 1..Len(circular) |->
            [type |-> "circular_ownership", entities |-> circular[i],
             risk_level |-> "high"]]
        \o [i \in 1..Len(hub_spoke) |->
            [type |-> "hub_spoke", hub |-> hub_spoke[i].hub,
             spokes |-> hub_spoke[i].spokes, risk_level |-> "medium"]]
        \o analyze_network_growth(g)
        \o [i \in 1..Len(isolated) |->
            [type |-> "isolated_subgroup", entities |-> isolated[i],
             risk_level |-> "medium"]]

\* _check_shared_attributes(entities): the director names and the addresses
\* found at two or more of the entities.
check_shared_attributes(g, entities) ==
    LET Names(v) == {g.attr[v].directors[k].name : k \in 1..Len(g.attr[v].directors)}
        Addrs(v) == Range(g.attr[v].addresses)
        SharedBy(F(_)) ==
            {x \in UNION {F(v) : v \in Range(entities)} :
                \E i \in 1..Len(entities), j \in 1..Len(entities) :
                    i # j /\ x \in F(entities[i]) /\ x \in F(entities[j])}
    IN  [directors |-> SharedBy(Names), addresses |-> SharedBy(Addrs)]

\* Truthiness of what _check_shared_attributes returns.
shared_truthy(shared) == shared.directors # {} \/ shared.addresses # {}

\* A variant that tests "is not None": the empty string counts as a date.
date_truthy_not_none(d) == d # "None"

\* if inc_date: None and '' are falsy.
date_truthy(d) == d # "None" /\ d # ""

\* date_groups: [date, entities] items in the order the dates are first met.
RECURSIVE date_groups(_, _, _)
date_groups(g, i, groups) ==
    IF i > Len(graph_nodes(g)) THEN groups
    ELSE LET node == graph_nodes(g)[i]
             inc_date == g.attr[node].incorporation_date
         IN  date_groups(g, i + 1,
                IF ~date_truthy(inc_date) THEN groups
                ELSE IF \E k \in 1..Len(groups) : groups[k].date = inc_date
                THEN [k \in 1..Len(groups) |->
                        IF groups[k].date = inc_date
                        THEN [groups[k] EXCEPT !.entities = Append(@, node)]
                        ELSE groups[k]]
                ELSE Append(groups, [date |-> inc_date, entities |-> <<node>>]))

\* A variant that looks at groups of two or more entities.
analyze_temporal_patterns_from_pairs(g) ==
    LET groups == date_groups(g, 1, <<>>)
        hits == SelectSeq(groups,
                    LAMBDA gr : /\ Len(gr.entities) >= 2
                                /\ shared_truthy(check_shared_attributes(g, gr.entities)))
    IN  [i \in 1..Len(hits) |->
            [type |-> "bulk_incorporation", date |-> hits[i].date,
             entities |-> hits[i].entities,
             shared_attributes |-> check_shared_attributes(g, hits[i].entities),
             risk_level |-> "high"]]

\* _analyze_temporal_patterns
analyze_temporal_patterns(g) ==
    LET groups == date_groups(g, 1, <<>>)
        hits == SelectSeq(groups,
                    LAMBDA gr : /\ Len(gr.entities) >= 3
                                /\ shared_truthy(check_shared_attributes(g, gr.entities)))
    IN  [i \in 1..Len(hits) |->
            [type |-> "bulk_incorporation", date |-> hits[i].date,
             entities |-> hits[i].entities,
             shared_attributes |-> check_shared_attributes(g, hits[i].entities),
             risk_level |-> "high"]]

\* A variant that also stores a summary under a key of its own.
calculate_anomaly_scores_with_summary(g, l) ==
    ("mean" :> 0) @@ [node \in Range(graph_nodes(g)) |-> l.anomaly.scores[node]]

\* _calculate_anomaly_scores, when numpy raises nothing: one score per node.
calculate_anomaly_scores(g, l) ==
    [node \in Range(graph_nodes(g)) |-> l.anomaly.scores[node]]

\* The computations of calculate_network_metrics that do not read the
\* communities: their results, or the exception that leaves the first of
\* them that fails.
other_metrics(g, l) ==
    IF l.centrality_raised # "none"
    THEN [kind |-> "raised", raised |-> l.centrality_raised]
    ELSE IF l.anomaly.raised # "none"
    THEN [kind |-> "raised", raised |-> l.anomaly.raised]
    ELSE [kind |-> "NetworkMetrics",
          centrality_scores |-> calculate_centrality_metrics(g, l),
          risk_patterns |-> identify_risk_patterns(g),
          temporal_patterns |-> analyze_temporal_patterns(g),
          suspicious_cycles |-> detect_suspicious_cycles(g),
          anomaly_scores |-> calculate_anomaly_scores(g, l)]

\* The NetworkMetrics bundle, or the exception.
network_metrics(other, g, l, lv) ==
    IF other.kind = "raised" THEN other
    ELSE [kind |-> "NetworkMetrics",
          centrality_scores |-> other.centrality_scores,
          community_membership |-> detect_communities(g, l, lv),
          risk_patterns |-> other.risk_patterns,
          temporal_patterns |-> other.temporal_patterns,
          suspicious_cycles |-> other.suspicious_cycles,
          anomaly_scores |-> other.anomaly_scores]

\* calculate_network_metrics, given best_partition's result lv.
calculate_network_metrics(g, l, lv) ==
    network_metrics(other_metrics(g, l), g, l, lv)

\* pattern.get('entities', [])
pattern_get_entities(pattern) ==
    IF "entities" \in DOMAIN pattern THEN pattern.entities ELSE <<>>

\* A variant that counts the other nodes of the community only.
community_size_without_self(m, node) ==
    Cardinality({n \in DOMAIN m.community_membership \ {node} :
                    m.community_membership[n] = m.community_membership[node]})

\* community_size: the nodes whose consensus community is the node's.
community_size(m, node) ==
    Cardinality({n \in DOMAIN m.community_membership :
                    m.community_membership[n] = m.community_membership[node]})

\* The community size below which a node is in an isolated community.
IsolatedCommunitySize == 3

\* The risk factors of one node, in the order the checks append them.
risk_factors_of(m, node, t) ==
    LET involved ==
            SelectSeq(m.risk_patterns,
                      LAMBDA pattern : node \in Range(pattern_get_entities(pattern)))
    IN  (IF FloatGt(m.centrality_scores[node].betweenness, t)
         THEN <<"high_betweenness_centrality">> ELSE <<>>)
        \o (IF FloatGt(m.centrality_scores[node].pagerank, t)
            THEN <<"high_pagerank">> ELSE <<>>)
        \o (IF community_size(m, node) < IsolatedCommunitySize
            THEN <<"isolated_community">> ELSE <<>>)
        \o [k \in 1..Len(involved) |-> "involved_in_" \o involved[k].type]
        \o (IF FloatGt(m.anomaly_scores[node], t)
            THEN <<"high_anomaly_score">> ELSE <<>>)

entity_record(m, node, factors) ==
    [entity |-> node,
     risk_factors |-> factors,
     anomaly_score |-> m.anomaly_scores[node],
     centrality_scores |-> m.centrality_scores[node]]

\* A variant of the node loop without the test "if risk_factors:".
RECURSIVE collect_entities_unguarded(_, _, _, _, _)
collect_entities_unguarded(g, m, t, i, acc) ==
    IF i > Len(graph_nodes(g)) THEN acc
    ELSE LET node == graph_nodes(g)[i]
         IN  collect_entities_unguarded(g, m, t, i + 1,
                Append(acc, entity_record(m, node, risk_factors_of(m, node, t))))

\* A variant of the node loop that appends a record for every risk factor.
RECURSIVE collect_entities_per_factor(_, _, _, _, _)
collect_entities_per_factor(g, m, t, i, acc) ==
    IF i > Len(graph_nodes(g)) THEN acc
    ELSE LET node == graph_nodes(g)[i]
             factors == risk_factors_of(m, node, t)
         IN  collect_entities_per_factor(g, m, t, i + 1,
                acc \o [k \in 1..Len(factors) |-> entity_record(m, node, factors)])

\* The loop over self.graph.nodes() of get_high_risk_entities.
RECURSIVE collect_entities(_, _, _, _, _)
collect_entities(g, m, t, i, acc) ==
    IF i > Len(graph_nodes(g)) THEN acc
    ELSE LET node == graph_nodes(g)[i]
             factors == risk_factors_of(m, node, t)
         IN  collect_entities(g, m, t, i + 1,
                IF factors # <<>>
                THEN Append(acc, entity_record(m, node, factors))
                ELSE acc)

Reverse(a) == [i \in 1..Len(a) |-> a[Len(a) + 1 - i]]

\* list.sort's count_run: the length of the run the list starts with, a
\* strictly descending run being reversed in place.
RECURSIVE run_end(_, _, _)
run_end(a, k, descending) ==
    IF k >= Len(a) THEN k
    ELSE IF descending = FloatLt(a[k + 1].anomaly_score, a[k].anomaly_score)
    THEN run_end(a, k + 1, descending)
    ELSE k

count_run(a) ==
    IF Len(a) < 2 THEN [run |-> Len(a), list |-> a]
    ELSE LET descending == FloatLt(a[2].anomaly_score, a[1].anomaly_score)
             k == run_end(a, 2, descending)
         IN  [run |-> k,
              list |-> IF descending
                       THEN Reverse(SubSeq(a, 1, k)) \o SubSeq(a, k + 1, Len(a))
                       ELSE a]

\* binarysort's search: where the pivot goes in the sorted prefix a[lo+1..hi].
RECURSIVE insertion_point(_, _, _, _)
insertion_point(a, pivot, lo, hi) ==
    IF lo >= hi THEN lo
    ELSE LET p == (lo + hi) \div 2
         IN  IF FloatLt(pivot.anomaly_score, a[p + 1].anomaly_score)
             THEN insertion_point(a, pivot, lo, p)
             ELSE insertion_point(a, pivot, p + 1, hi)

\* binarysort: the elements after the first run, inserted one by one.
RECURSIVE binarysort(_, _)
binarysort(a, start) ==
    IF start > Len(a) THEN a
    ELSE LET pivot == a[start]
             l == insertion_point(a, pivot, 0, start - 1)
         IN  binarysort(SubSeq(a, 1, l) \o <<pivot>> \o SubSeq(a, l + 1, start - 1)
                            \o SubSeq(a, start + 1, Len(a)),
                        start + 1)

\* list.sort on a short list, ascending by anomaly_score.
list_sort(a) ==
    LET r == count_run(a) IN binarysort(r.list, r.run + 1)

\* sorted(high_risk_entities, key=..., reverse=True): the list is reversed,
\* sorted ascending, and reversed again.
sorted_reverse(a) == Reverse(list_sort(Reverse(a)))

\* get_high_risk_entities, from the bundle its call of
\* calculate_network_metrics returned.
get_high_risk_entities(g, m, t) ==
    sorted_reverse(collect_entities(g, m, t, 1, <<>>))

----------------------------------------------------------------------------
(* What the libraries return                                                *)

\* The labellings f of the nodes of g with the labels 0..k-1, every label
\* used and every community connected in g.
ConnectedLabellings(g, k) ==
    {f \in [NodeSet(g) -> 0..(k - 1)] :
        \A c \in 0..(k - 1) :
            /\ \E v \in NodeSet(g) : f[v] = c
            /\ InducedConnected(g, {v \in NodeSet(g) : f[v] = c})}

\* The largest number of communities of a best_partition result on a graph
\* that has edges.
MaxCommunities == 2

\* community.best_partition(graph): without edges every node is numbered by
\* its position; with edges the node order is shuffled from an unseeded
\* generator on every call.  Which partition and numbering a shuffle leads
\* to is not computed: the result is any labelling into connected
\* communities, at most MaxCommunities of them or, where the graph has more
\* connected components than that, one for each component.
LouvainOutcomes(g) ==
    IF DOMAIN g.edges = {}
    THEN {[v \in NodeSet(g) |-> NodeIndex(g, v) - 1]}
    ELSE LET c == Len(connected_components(g))
         IN  UNION {ConnectedLabellings(g, k) :
                        k \in c..(IF c > MaxCommunities THEN c ELSE MaxCommunities)}

\* All simple paths of g that start at s, as node lists.
RECURSIVE paths_from(_, _, _)
paths_from(g, paths, found) ==
    IF paths = {} THEN found
    ELSE LET longer == UNION {{Append(p, w) :
                                w \in Neighbours(g, p[Len(p)]) \ Range(p)} : p \in paths}
         IN  paths_from(g, longer, found \cup paths)

shortest_paths(g, s, t) ==
    LET st == {p \in paths_from(g, {<<s>>}, {}) : p[Len(p)] = t}
    IN  {p \in st : \A q \in st : Len(p) <= Len(q)}

\* The factor that makes the shares of the shortest paths whole numbers.
BetweennessScale == 60

\* The share of the shortest paths from st[1] to st[2] that run through e.
path_share(g, e, st) ==
    LET sp == shortest_paths(g, st[1], st[2])
        through == {p \in sp : \E i \in 1..(Len(p) - 1) : {p[i], p[i + 1]} = e}
    IN  (BetweennessScale * Cardinality(through)) \div Cardinality(sp)

RECURSIVE share_sum(_, _, _)
share_sum(g, e, pairs) ==
    IF pairs = {} THEN 0
    ELSE LET st == CHOOSE x \in pairs : TRUE
         IN  path_share(g, e, st) + share_sum(g, e, pairs \ {st})

\* nx.edge_betweenness_centrality, up to a common factor: over the pairs of
\* connected nodes, the share of the pair's shortest paths through edge e.
edge_betweenness(g, e) ==
    share_sum(g, e, {st \in NodeSet(g) \X NodeSet(g) :
                        /\ NodeIndex(g, st[1]) < NodeIndex(g, st[2])
                        /\ st[2] \in ReachableFrom(g, {st[1]})})

\* The position of an edge in G.edges(): by its earlier endpoint, then by the
\* other one.
EdgeKey(g, e) ==
    LET lo == CHOOSE i \in 1..Len(g.nodes) :
                /\ g.nodes[i] \in e
                /\ \A v \in e : i <= NodeIndex(g, v)
        hi == CHOOSE i \in 1..Len(g.nodes) :
                /\ g.nodes[i] \in e
                /\ \A v \in e : i >= NodeIndex(g, v)
    IN  lo * (Len(g.nodes) + 1) + hi

\* max(betweenness, key=betweenness.get): the first edge of highest
\* betweenness.
most_valuable_edge(g) ==
    CHOOSE e \in DOMAIN g.edges :
        \A f \in DOMAIN g.edges :
            \/ edge_betweenness(g, e) > edge_betweenness(g, f)
            \/ /\ edge_betweenness(g, e) = edge_betweenness(g, f)
               /\ EdgeKey(g, e) <= EdgeKey(g, f)

remove_edge(g, e) ==
    [g EXCEPT !.edges = [p \in DOMAIN g.edges \ {e} |-> g.edges[p]]]

\* girvan_newman's first yield: edges are removed, the most valuable first,
\* until the graph has more components than before.
RECURSIVE without_most_valuable_edges(_, _)
without_most_valuable_edges(g, components) ==
    IF Len(connected_components(g)) > components THEN g
    ELSE without_most_valuable_edges(remove_edge(g, most_valuable_edge(g)), components)

\* {node: comm for comm, nodes in enumerate(girvan_newman[0]) for node in
\* nodes}: without edges the connected components, else the components after
\* the removals; a node's label is the position of its component.
girvan_newman_first(g) ==
    LET split == IF DOMAIN g.edges = {} THEN g
                 ELSE without_most_valuable_edges(g, Len(connected_components(g)))
        comps == connected_components(split)
    IN  [v \in NodeSet(g) |-> (CHOOSE i \in 1..Len(comps) : v \in comps[i]) - 1]

\* Values of betweenness and PageRank, in hundredths.
LowBetweenness == 0
HighCentrality == 80
LowPagerank == 25

\* betweenness_centrality and pagerank as the ranking reads them: no node
\* stands out, or the first node has a high betweenness and the last node a
\* high PageRank.
CentralityOutcomes(g) ==
    LET n == Len(g.nodes)
        low == [betweenness |-> [v \in NodeSet(g) |-> LowBetweenness],
                pagerank |-> [v \in NodeSet(g) |-> LowPagerank]]
    IN  IF n = 0 THEN {low}
        ELSE {low,
              [low EXCEPT !.betweenness[g.nodes[1]] = HighCentrality,
                          !.pagerank[g.nodes[n]] = HighCentrality]}

\* Values of an anomaly score, in hundredths.
\* max_iter of nx.eigenvector_centrality in _calculate_centrality_metrics, and
\* its default in _calculate_anomaly_scores.
EigenvectorMaxIter == 1000
EigenvectorDefaultMaxIter == 100

\* The graph is a triangle next to a star of three spokes.
TriangleNextToStar(g) ==
    LET comps == Range(connected_components(g))
    IN  /\ Cardinality(comps) = 2
        /\ \E t \in comps :
                Cardinality(t) = 3 /\ \A u \in t, v \in t : u # v => Adjacent(g, u, v)
        /\ \E c \in comps :
                /\ Cardinality(c) = 4
                /\ \E h \in c :
                        /\ Neighbours(g, h) = c \ {h}
                        /\ \A v \in c \ {h} : Neighbours(g, v) = {h}

\* The iterations nx.eigenvector_centrality needs (power iteration on A + I
\* from the uniform vector, until the vectors of two rounds differ by less
\* than 1e-6 per node): 111 for a triangle next to a star of three spokes,
\* whose two largest eigenvalues are 3 and 1 + sqrt(3); 58 at most for any
\* graph of six or fewer nodes.
SlowIterations == 111
FewIterations == 58
eigenvector_iterations(g) ==
    IF TriangleNextToStar(g) THEN SlowIterations ELSE FewIterations

\* nx.eigenvector_centrality raises PowerIterationFailedConvergence after
\* max_iter iterations without convergence.
eigenvector_fails(g, max_iter) ==
    Len(g.nodes) > 0 /\ eigenvector_iterations(g) > max_iter

\* 1 / alpha of nx.katz_centrality's default alpha = 0.1.
KatzLimit == 10

\* nx.katz_centrality iterates x = alpha * A x + 1 for at most 1000 rounds and
\* raises PowerIterationFailedConvergence when x does not settle; it cannot
\* settle where alpha times the largest eigenvalue of A is 1 or more, which
\* is so where every node has KatzLimit or more neighbours.  On a graph of
\* 7 nodes or fewer the product is 0.6 at most and x settles within 40 rounds.
katz_fails(g) ==
    /\ Len(g.nodes) > 0
    /\ \A v \in NodeSet(g) : Cardinality(Neighbours(g, v)) >= KatzLimit

\* A library call of _calculate_centrality_metrics raises.
centrality_fails(g) == eigenvector_fails(g, EigenvectorMaxIter) \/ katz_fails(g)

AnomalyValues == {NaN, 60, 95}

\* The number of nodes whose scores are chosen freely; the scores of later
\* nodes repeat them in turn.
MaxScorePattern == 3

\* The feature rows, then StandardScaler, np.cov, np.linalg.inv and np.sqrt
\* on them: without nodes no feature is computed and fit_transform raises
\* ValueError on the empty list; with nodes eigenvector_centrality is called
\* with its default max_iter; inv raises LinAlgError on a matrix it finds
\* singular; otherwise every node gets a float, which is nan where the
\* covariance holds nan (one node) or the quadratic form is negative.
AnomalyOutcomes(g) ==
    LET n == Len(g.nodes)
        k == IF n < MaxScorePattern THEN n ELSE MaxScorePattern
        failed == [raised |-> "LinAlgError", scores |-> EmptyMap]
    IN  IF n = 0 THEN {[raised |-> "ValueError", scores |-> EmptyMap]}
        ELSE IF eigenvector_fails(g, EigenvectorDefaultMaxIter)
        THEN {[raised |-> "PowerIterationFailedConvergence", scores |-> EmptyMap]}
        ELSE IF n = 1
        THEN {failed, [raised |-> "none", scores |-> [v \in NodeSet(g) |-> NaN]]}
        ELSE {failed} \cup
             {[raised |-> "none",
               scores |-> [v \in NodeSet(g) |-> sc[((NodeIndex(g, v) - 1) % k) + 1]]] :
                sc \in [1..k -> AnomalyValues]}

\* _calculate_centrality_metrics calls the libraries once per node, so on a
\* graph without nodes it calls none of them.  Where one of its calls raises
\* nothing else is computed, and no other result is held.
LibOutcomes(g) ==
    IF centrality_fails(g)
    THEN {[centrality_raised |-> "PowerIterationFailedConvergence",
           betweenness |-> EmptyMap,
           pagerank |-> EmptyMap,
           girvan_newman |-> EmptyMap,
           anomaly |-> [raised |-> "none", scores |-> EmptyMap]]}
    ELSE {[centrality_raised |-> "none",
           betweenness |-> c.betweenness,
           pagerank |-> c.pagerank,
           girvan_newman |-> girvan_newman_first(g),
           anomaly |-> a] :
             c \in CentralityOutcomes(g), a \in AnomalyOutcomes(g)}

\* community.best_partition as calculate_network_metrics reaches it: not at
\* all where _calculate_centrality_metrics, which runs before it, has raised.
BestPartitionOutcomes(g, l) ==
    IF l.centrality_raised # "none" THEN {NoneVal} ELSE LouvainOutcomes(g)

----------------------------------------------------------------------------
(* The graphs handed to NetworkAnalyzer                                     *)

MaxNodes == 4

NodeNames == <<"A", "B", "C", "D", "E", "F", "G", "H", "I", "J", "K">>
Dates == <<"2023-01-01", "2023-01-02", "2023-01-03", "2023-01-04",
           "2023-01-05", "2023-01-06", "2023-01-07">>
DirectorNames == <<"John Smith", "Jane Doe", "Ann Lee", "Bob Ray",
                   "Cy Young", "Di Wu", "Ed Fox">>
Addresses == <<"123 Test St", "456 Test Ave", "7 Mill Rd", "8 Hill Rd",
               "9 Dock Rd", "10 Park Rd", "11 Quay Rd">>

Schemes == {"shared", "distinct", "date_only"}

\* Node attributes as the analyzer reads them: "shared" gives every node the
\* same date, director and address, "distinct" gives every node its own,
\* "date_only" gives every node the same date and its own director and address.
NodeAttributes(i, scheme) ==
    LET k == IF scheme = "shared" THEN 1 ELSE i
    IN  [incorporation_date |-> Dates[IF scheme = "date_only" THEN 1 ELSE k],
         directors |-> <<[name |-> DirectorNames[k], appointment_date |-> Dates[k]]>>,
         addresses |-> <<Addresses[k]>>]

Shapes == {"edgeless", "path", "triangle", "star", "pair"}

EdgeKinds == {[relationship_type |-> "shared_director", strength |-> 70],
              [relationship_type |-> "ownership", strength |-> 90],
              [relationship_type |-> "control", strength |-> 90],
              [relationship_type |-> "ownership", strength |-> 80]}

\* The edges of a shape on the first n nodes, as index pairs in insertion
\* order.
ShapeEdges(shape, n) ==
    LET path == [i \in 1..(n - 1) |-> <<i, i + 1>>]
    IN  CASE shape = "path" -> path
          [] shape = "triangle" -> Append(path, <<n, 1>>)
          [] shape = "star" -> [i \in 1..(n - 1) |-> <<1, i + 1>>]
          [] shape = "pair" -> <<<<1, 2>>>>
          [] OTHER -> <<>>

ShapeFits(shape, n) ==
    CASE shape = "path" -> n >= 2
      [] shape = "triangle" -> n = 3
      [] shape = "star" -> n >= 4
      [] shape = "pair" -> n >= 3
      [] OTHER -> TRUE

\* The combinations of shape, edge kind and attributes that are handed over.
ScenarioFits(shape, kind, scheme) ==
    /\ shape = "pair" => kind.relationship_type = "shared_director" /\ scheme = "distinct"
    /\ scheme = "date_only" => shape = "edgeless"
    /\ kind.relationship_type = "control" => shape = "star" /\ scheme = "distinct"
    /\ kind.strength = 80 => shape = "triangle" /\ scheme = "distinct"

\* The pairs <<i, j>>, i < j, of 1..n in lexicographic order.
index_pairs(n) ==
    LET RECURSIVE pairs(_, _)
        pairs(i, j) == IF i >= n THEN <<>>
                       ELSE IF j > n THEN pairs(i + 1, i + 2)
                       ELSE <<<<i, j>>>> \o pairs(i, j + 1)
    IN  pairs(1, 2)

RECURSIVE with_nodes(_, _, _, _)
with_nodes(g, n, scheme, i) ==
    IF i > n THEN g
    ELSE with_nodes(add_node(g, NodeNames[i], NodeAttributes(i, scheme)), n, scheme, i + 1)

RECURSIVE with_edges(_, _, _, _)
with_edges(g, edges, kind, i) ==
    IF i > Len(edges) THEN g
    ELSE with_edges(add_edge(g, NodeNames[edges[i][1]], NodeNames[edges[i][2]],
                             kind.relationship_type, kind.strength),
                    edges, kind, i + 1)

ScenarioGraph(n, shape, kind, scheme) ==
    with_edges(with_nodes(EmptyGraph, n, scheme, 1), ShapeEdges(shape, n), kind, 1)

\* A star of three spokes next to a triangle: the smallest kind of graph on
\* which eigenvector_centrality does not converge within its default max_iter.
StarNextToTriangle ==
    with_edges(with_nodes(EmptyGraph, 7, "distinct", 1),
               <<<<1, 2>>, <<1, 3>>, <<1, 4>>, <<5, 6>>, <<6, 7>>, <<7, 5>>>>,
               [relationship_type |-> "shared_director", strength |-> 70], 1)

\* Incorporation dates of ten companies: three of one day, three of another,
\* three whose date is the empty string and one without a date (None).
BulkDates == <<Dates[1], "", Dates[2], Dates[1], "None", Dates[2], Dates[1], "",
               Dates[2], "">>

RECURSIVE with_dated_nodes(_, _, _)
with_dated_nodes(g, dates, i) ==
    IF i > Len(dates) THEN g
    ELSE with_dated_nodes(
            add_node(g, NodeNames[i],
                     [NodeAttributes(i, "shared") EXCEPT !.incorporation_date = dates[i]]),
            dates, i + 1)

\* Ten companies with one director and one address, dated by BulkDates, and
\* no edge.
TwoBulkIncorporations == with_dated_nodes(EmptyGraph, BulkDates, 1)

\* Eleven companies that all share one director, each joined to every other
\* by a 'shared_director' edge: the smallest graph in which every node has
\* KatzLimit neighbours.
CliqueNodes == 11
SharedDirectorClique ==
    LET names == [i \in 1..CliqueNodes |-> NodeNames[i]]
    IN  [nodes |-> names,
         attr  |-> [v \in Range(names) |-> NodeAttributes(1, "shared")],
         edges |-> [p \in {{names[q[1]], names[q[2]]} :
                              q \in Range(index_pairs(CliqueNodes))} |->
                        [relationship_type |-> "shared_director",
                         strength |-> 70]]]

\* The thresholds a caller passes, in hundredths.
Thresholds == {50, 90}

----------------------------------------------------------------------------
(* The analyzer as a state machine                                          *)

\* NetworkAnalyzer(graph): any scenario graph, and what the libraries return
\* on it.
Init ==
    /\ companies_data = <<>>
    /\ \/ \E n \in 0..MaxNodes, shape \in Shapes, kind \in EdgeKinds,
             scheme \in Schemes :
               /\ ShapeFits(shape, n)
               /\ ScenarioFits(shape, kind, scheme)
               /\ G = ScenarioGraph(n, shape, kind, scheme)
       \/ G = StarNextToTriangle
       \/ G = SharedDirectorClique
       \/ G = TwoBulkIncorporations
    /\ lib \in LibOutcomes(G)
    /\ pc = "ready"
    /\ louvain = NoneVal
    /\ risk_threshold = 0
    /\ metrics = NoneVal
    /\ high_risk_entities = <<>>

\* A variant in which the consensus community is stored on the node.
graph_after_call_annotated(g) ==
    [g EXCEPT !.attr = [v \in DOMAIN g.attr |->
                            [incorporation_date |-> g.attr[v].incorporation_date,
                             directors |-> g.attr[v].directors,
                             addresses |-> g.attr[v].addresses,
                             community |-> 0]]]

\* self.graph after a call: the analyzer reads self.graph.nodes() and
\* self.graph.nodes[node] and assigns to neither; betweenness_centrality,
\* eigenvector_centrality, pagerank, simple_cycles and
\* label_propagation_communities read their argument, best_partition and
\* girvan_newman work on a copy of it.
graph_after_call(g) == g

\* analyzer.calculate_network_metrics(): best_partition returns one of its
\* outcomes, the bundle (or the exception) is the call's result; no ranked
\* list is held after it.
CalculateNetworkMetrics ==
    /\ pc \in {"ready", "metrics", "ranked", "raised"}
    /\ \E other \in {other_metrics(G, lib)} :
        \E lv \in BestPartitionOutcomes(G, lib) :
            /\ louvain' = lv
            /\ metrics' = network_metrics(other, G, lib, lv)
    /\ pc' = IF metrics'.kind = "raised" THEN "raised" ELSE "metrics"
    /\ risk_threshold' = 0
    /\ high_risk_entities' = <<>>
    /\ G' = graph_after_call(G)
    /\ UNCHANGED <<companies_data, lib>>

\* analyzer.get_high_risk_entities(t): the metrics are computed afresh, then
\* ranked; an exception of the computation leaves the call.
GetHighRiskEntities ==
    /\ pc \in {"ready", "metrics", "ranked", "raised"}
    /\ \E other \in {other_metrics(G, lib)} :
        \E lv \in BestPartitionOutcomes(G, lib) :
            \E m \in {network_metrics(other, G, lib, lv)} :
                \E t \in Thresholds :
                    /\ louvain' = lv
                    /\ metrics' = m
                    /\ risk_threshold' = t
                    /\ IF m.kind = "raised"
                       THEN pc' = "raised" /\ high_risk_entities' = <<>>
                       ELSE /\ pc' = "ranked"
                            /\ high_risk_entities' = get_high_risk_entities(G, m, t)
    /\ G' = graph_after_call(G)
    /\ UNCHANGED <<companies_data, lib>>

\* Calls in any number and order.
Next == CalculateNetworkMetrics \/ GetHighRiskEntities

Spec == Init /\ [][Next]_vars

\* A call on a fresh analyzer. A call reads self.graph and nothing an earlier
\* call left behind, so its results are those of a call after any others.
FirstCall == pc = "ready" /\ Next

SpecFirstCall == Init /\ [][FirstCall]_vars

\* calculate_network_metrics() on a fresh analyzer.
MetricsCall == pc = "ready" /\ CalculateNetworkMetrics

SpecMetricsCall == Init /\ [][MetricsCall]_vars

\* get_high_risk_entities(t) on a fresh analyzer.
RankingCall == pc = "ready" /\ GetHighRiskEntities

SpecRankingCall == Init /\ [][RankingCall]_vars

----------------------------------------------------------------------------
(* Properties of the analyzer                                               *)

HasBundle == metrics.kind = "NetworkMetrics"

Ranked == pc = "ranked"

Entities(list) == {list[i].entity : i \in 1..Len(list)}

\* C5: whenever calculate_network_metrics returns a bundle, the keys of
\* centrality_scores, of community_membership and of anomaly_scores are
\* exactly the nodes of the graph: every node has an entry in each of the
\* three maps and none of them has a key that is no node.
C5_EveryNodeHasEntries ==
    HasBundle =>
        /\ DOMAIN metrics.centrality_scores = NodeSet(G)
        /\ DOMAIN metrics.community_membership = NodeSet(G)
        /\ DOMAIN metrics.anomaly_scores = NodeSet(G)

\* A bundle returned for a graph of three or more nodes that has a node
\* without any edge.
C5_Witness ==
    /\ pc = "metrics"
    /\ HasBundle
    /\ Len(G.nodes) >= 3
    /\ \E v \in NodeSet(G) : Neighbours(G, v) = {}

\* C6: of two successive calls of get_high_risk_entities on the same graph,
\* the one with the lower threshold returns a superset of the entities the
\* one with the higher threshold returns.
C6_LowerThresholdSuperset ==
    [][(Ranked /\ pc' = "ranked") =>
        /\ (risk_threshold' < risk_threshold =>
                Entities(high_risk_entities) \subseteq Entities(high_risk_entities'))
        /\ (risk_threshold < risk_threshold' =>
                Entities(high_risk_entities') \subseteq Entities(high_risk_entities))]_vars

\* On one and the same bundle a lower threshold flags a superset.
SupersetOnOneBundle ==
    Ranked =>
        \A t1 \in Thresholds : \A t2 \in Thresholds :
            t1 < t2 =>
                Entities(get_high_risk_entities(G, metrics, t2))
                    \subseteq Entities(get_high_risk_entities(G, metrics, t1))

\* Python's x == y on floats: False when either is NaN.
FloatEq(x, y) == x # NaN /\ y # NaN /\ x = y

InOutputOrder(list) ==
    \A i \in 1..Len(list) : \A j \in 1..Len(list) :
        i < j =>
            /\ ~FloatLt(list[i].anomaly_score, list[j].anomaly_score)
            /\ FloatEq(list[i].anomaly_score, list[j].anomaly_score) =>
                    NodeIndex(G, list[i].entity) < NodeIndex(G, list[j].entity)

\* C7: in the returned list no entity comes before one with a greater
\* anomaly_score, and entities with equal anomaly_score come in the node
\* order of the graph.
C7_SortedDescendingStable == Ranked => InOutputOrder(high_risk_entities)

\* The order holds whenever every score of the bundle is a number.
SortedWhenScoresAreNumbers ==
    (Ranked /\ \A v \in NodeSet(G) : metrics.anomaly_scores[v] # NaN) =>
        InOutputOrder(high_risk_entities)

\* The node has a risk factor under threshold t: one of the five checks of
\* the ranking holds for it.
HasRiskFactor(v, t) ==
    \/ FloatGt(metrics.centrality_scores[v].betweenness, t)
    \/ FloatGt(metrics.centrality_scores[v].pagerank, t)
    \/ community_size(metrics, v) < IsolatedCommunitySize
    \/ \E k \in 1..Len(metrics.risk_patterns) :
            v \in Range(pattern_get_entities(metrics.risk_patterns[k]))
    \/ FloatGt(metrics.anomaly_scores[v], t)

\* C8: a node of the graph is in the returned list exactly when it has a risk
\* factor under the threshold of the call, and no returned record has an
\* empty risk_factors list.
C8_ReturnedIffRiskFactor ==
    Ranked =>
        /\ \A v \in NodeSet(G) :
                (v \in Entities(high_risk_entities)) <=> HasRiskFactor(v, risk_threshold)
        /\ \A i \in 1..Len(high_risk_entities) :
                high_risk_entities[i].risk_factors # <<>>

\* A call that returned some node and left out another.
C8_Witness ==
    /\ Ranked
    /\ high_risk_entities # <<>>
    /\ \E v \in NodeSet(G) : v \notin Entities(high_risk_entities)

\* C9: every returned entity is a node of the graph, no entity is returned
\* twice, and the bundle held after the call is the one
\* calculate_network_metrics produced.
C9_EntitiesAreNodesOnce ==
    Ranked =>
        /\ Entities(high_risk_entities) \subseteq NodeSet(G)
        /\ \A i \in 1..Len(high_risk_entities) : \A j \in 1..Len(high_risk_entities) :
                i # j => high_risk_entities[i].entity # high_risk_entities[j].entity
        /\ metrics = calculate_network_metrics(G, lib, louvain)

\* A call that returned two or more entities, one of them with several risk
\* factors.
C9_Witness ==
    /\ Ranked
    /\ Len(high_risk_entities) >= 2
    /\ \E i \in 1..Len(high_risk_entities) :
            Len(high_risk_entities[i].risk_factors) >= 2

\* The nodes a pattern names: its entities, or its hub and spokes.
PatternMembers(pattern) ==
    IF "entities" \in DOMAIN pattern THEN Range(pattern.entities)
    ELSE {pattern.hub} \cup Range(pattern.spokes)

ReportedFor(v, type) ==
    \E i \in 1..Len(high_risk_entities) :
        /\ high_risk_entities[i].entity = v
        /\ ("involved_in_" \o type) \in Range(high_risk_entities[i].risk_factors)

\* C10: every member of a structural pattern (circular ownership, hub and
\* spokes, isolated subgroup) and of a temporal pattern (bulk incorporation)
\* of the bundle is returned with the factor involved_in_<type> of that
\* pattern.
C10_PatternMembersReported ==
    Ranked =>
        /\ \A k \in 1..Len(metrics.risk_patterns) :
                \A v \in PatternMembers(metrics.risk_patterns[k]) :
                    ReportedFor(v, metrics.risk_patterns[k].type)
        /\ \A k \in 1..Len(metrics.temporal_patterns) :
                \A v \in PatternMembers(metrics.temporal_patterns[k]) :
                    ReportedFor(v, metrics.temporal_patterns[k].type)

\* The members of the risk patterns that carry an entities list are reported.
EntitiesPatternsReported ==
    Ranked =>
        \A k \in 1..Len(metrics.risk_patterns) :
            \A v \in Range(pattern_get_entities(metrics.risk_patterns[k])) :
                ReportedFor(v, metrics.risk_patterns[k].type)

\* The nodes of the graph that share the consensus community id of v.
ConsensusCommunity(v) ==
    {n \in NodeSet(G) : metrics.community_membership[n] = metrics.community_membership[v]}

\* C11: a node is reported with 'isolated_community' exactly when fewer than
\* 3 nodes (itself included) have its consensus community id, and the factor
\* is among the node's risk factors under every threshold alike.
C11_IsolatedCommunityIffSmall ==
    Ranked =>
        \A v \in NodeSet(G) :
            /\ (\E i \in 1..Len(high_risk_entities) :
                    /\ high_risk_entities[i].entity = v
                    /\ "isolated_community" \in Range(high_risk_entities[i].risk_factors))
                <=> Cardinality(ConsensusCommunity(v)) < 3
            /\ \A t \in Thresholds :
                    "isolated_community" \in Range(risk_factors_of(metrics, v, t))
                        <=> Cardinality(ConsensusCommunity(v)) < 3

\* The consensus the precedence modularity > label propagation > hierarchical
\* gives for the three labels collected for a node.
PrecedenceConsensus(votes) ==
    IF \E i \in 1..3 : Count(votes, votes[i]) >= 2
    THEN CHOOSE x \in Range(votes) : Count(votes, x) >= 2
    ELSE votes[1]

\* The labels _detect_communities collects for node v.
Votes(v) == <<louvain[v], label_prop_get(v), lib.girvan_newman[v]>>

\* C12: the consensus community id of a node is the label most of the three
\* partitions give it, and the modularity partition's label when the three
\* labels all differ.
C12_ConsensusByPrecedence ==
    HasBundle =>
        \A v \in NodeSet(G) :
            metrics.community_membership[v] = PrecedenceConsensus(Votes(v))

\* calculate_network_metrics has returned its bundle.
MetricsReturned == pc = "metrics"

\* The nodes of the graph incorporated on date d.
DateGroup(d) == {v \in NodeSet(G) : G.attr[v].incorporation_date = d}

\* Two members of the group have a director name or an address in common.
SharesAttribute(group) ==
    \E u \in group, v \in group :
        /\ u # v
        /\ \/ \E i \in 1..Len(G.attr[u].directors), j \in 1..Len(G.attr[v].directors) :
                G.attr[u].directors[i].name = G.attr[v].directors[j].name
           \/ Range(G.attr[u].addresses) \cap Range(G.attr[v].addresses) # {}

DateOnlyGroupOfThree ==
    /\ MetricsReturned
    /\ \E d \in Range(Dates) :
            Cardinality(DateGroup(d)) = 3 /\ ~SharesAttribute(DateGroup(d))

\* h is joined by 'control' edges to 3 or more nodes that have no other edge.
ControlHub(h) ==
    /\ Cardinality(Neighbours(G, h)) >= 3
    /\ \A v \in Neighbours(G, h) :
            /\ G.edges[{h, v}].relationship_type = "control"
            /\ Neighbours(G, v) = {h}

\* The risk patterns of the bundle that are of the given type.
PatternsOfType(type) ==
    {i \in 1..Len(metrics.risk_patterns) : metrics.risk_patterns[i].type = type}

\* C14: a hub joined by 'control' edges to N >= 3 spokes without other edges
\* is reported in one 'hub_spoke' record of risk_level 'medium' whose spokes
\* are exactly the N spokes, each listed once.
C14_ControlHubReportedWithItsSpokes ==
    MetricsReturned =>
        \A h \in NodeSet(G) :
            ControlHub(h) =>
                /\ Cardinality({i \in PatternsOfType("hub_spoke") :
                                    metrics.risk_patterns[i].hub = h}) = 1
                /\ \A i \in PatternsOfType("hub_spoke") :
                        metrics.risk_patterns[i].hub = h =>
                            /\ Range(metrics.risk_patterns[i].spokes) = Neighbours(G, h)
                            /\ Len(metrics.risk_patterns[i].spokes)
                                    = Cardinality(Neighbours(G, h))
                            /\ metrics.risk_patterns[i].risk_level = "medium"

\* A bundle for a graph with a hub of 'control' edges to three spokes.
C14_Witness ==
    /\ MetricsReturned
    /\ \E h \in NodeSet(G) : ControlHub(h)
    /\ PatternsOfType("hub_spoke") # {}

\* The connected components of the graph that have exactly 3 nodes.
ComponentsOfThree ==
    {c \in Range(connected_components(G)) : Cardinality(c) = 3}

\* C15: a connected component of exactly 3 nodes is reported in one
\* 'isolated_subgroup' record of risk_level 'medium' whose entities are
\* exactly those 3 nodes.
C15_ComponentOfThreeReported ==
    MetricsReturned =>
        \A c \in ComponentsOfThree :
            /\ Cardinality({i \in PatternsOfType("isolated_subgroup") :
                                Range(metrics.risk_patterns[i].entities) \cap c # {}}) = 1
            /\ \A i \in PatternsOfType("isolated_subgroup") :
                    Range(metrics.risk_patterns[i].entities) \cap c # {} =>
                        /\ Range(metrics.risk_patterns[i].entities) = c
                        /\ Len(metrics.risk_patterns[i].entities) = 3
                        /\ metrics.risk_patterns[i].risk_level = "medium"

\* A bundle for a graph with a component of exactly 3 nodes, holding an
\* 'isolated_subgroup' record.
C15_Witness ==
    /\ MetricsReturned
    /\ ComponentsOfThree # {}
    /\ PatternsOfType("isolated_subgroup") # {}

\* The edges a node list runs along when it is closed to a cycle.
CycleEdges(c) == {{c[i], c[(i % Len(c)) + 1]} : i \in 1..Len(c)}

\* The edge sets of the simple cycles of the graph: three or more edges of
\* the graph that form one closed walk through distinct nodes.
SimpleCycleEdgeSets ==
    {E \in SUBSET DOMAIN G.edges :
        /\ Cardinality(E) >= 3
        /\ \A v \in UNION E : Cardinality({e \in E : v \in e}) = 2
        /\ InducedConnected([G EXCEPT !.edges = [e \in E |-> G.edges[e]]], UNION E)}

RECURSIVE EdgeStrengthSum(_)
EdgeStrengthSum(E) ==
    IF E = {} THEN 0
    ELSE LET e == CHOOSE x \in E : TRUE
         IN  G.edges[e].strength + EdgeStrengthSum(E \ {e})

\* The risk of the cycle along the edges E exceeds 0.75.
RiskAboveThreshold(E) == EdgeStrengthSum(E) > 75 * Cardinality(E)

\* C16: every cycle in suspicious_cycles is a simple cycle of the graph of 3
\* or more nodes whose risk exceeds 0.75, and every simple cycle of 3 or more
\* nodes whose risk exceeds 0.75 is in suspicious_cycles.
C16_SuspiciousCyclesExact ==
    MetricsReturned =>
        \E cycles \in {SimpleCycleEdgeSets} :
            /\ \A i \in 1..Len(metrics.suspicious_cycles) :
                \E c \in {metrics.suspicious_cycles[i]} :
                    /\ Len(c) >= 3
                    /\ Cardinality(Range(c)) = Len(c)
                    /\ CycleEdges(c) \in cycles
                    /\ RiskAboveThreshold(CycleEdges(c))
            /\ \A E \in cycles :
                    RiskAboveThreshold(E) =>
                        \E i \in 1..Len(metrics.suspicious_cycles) :
                            CycleEdges(metrics.suspicious_cycles[i]) = E

\* A bundle that lists a suspicious cycle.
C16_Witness ==
    /\ MetricsReturned
    /\ metrics.suspicious_cycles # <<>>

\* A bundle for a graph with a cycle whose risk does not exceed 0.75.
CycleBelowThreshold ==
    /\ MetricsReturned
    /\ \E E \in SimpleCycleEdgeSets : ~RiskAboveThreshold(E)

\* The 3-node cycles of the graph, as node lists, whose edges are all
\* 'ownership' edges of strength 0.8 or more.
StrongOwnershipTriangles ==
    {c \in Range(simple_cycles(G)) :
        /\ Len(c) = 3
        /\ \A e \in CycleEdges(c) :
                /\ G.edges[e].relationship_type = "ownership"
                /\ G.edges[e].strength >= 80}

CallEnded == pc # "ready"

\* C18: on a graph with zero nodes calculate_network_metrics and
\* get_high_risk_entities end without raising and return empty outputs: empty
\* centrality, community and anomaly maps, empty pattern and cycle lists and
\* an empty ranked list.
C18_EmptyGraphEmptyOutputs ==
    (CallEnded /\ NodeSet(G) = {}) =>
        /\ pc # "raised"
        /\ HasBundle
        /\ DOMAIN metrics.centrality_scores = {}
        /\ DOMAIN metrics.community_membership = {}
        /\ DOMAIN metrics.anomaly_scores = {}
        /\ metrics.risk_patterns = <<>>
        /\ metrics.temporal_patterns = <<>>
        /\ metrics.suspicious_cycles = <<>>
        /\ high_risk_entities = <<>>

\* The number of features of a node in _calculate_anomaly_scores.
FeatureDimensions == 5

\* The covariance matrix of the standardized features is not invertible:
\* with no more rows than features its rank is below FeatureDimensions.
CovarianceNotInvertible ==
    Len(G.nodes) >= 1 /\ Len(G.nodes) <= FeatureDimensions

\* C19: when the covariance matrix of the standardized features is not
\* invertible, the call fails with SingularCovariance and no node gets an
\* anomaly score.
C19_SingularCovarianceRaised ==
    (CallEnded /\ CovarianceNotInvertible) =>
        /\ pc = "raised"
        /\ metrics.kind = "raised"
        /\ metrics.raised = "SingularCovariance"

\* A bundle whose anomaly scores are nan for a covariance matrix that is not
\* invertible.
NanScoresOnSingularCovariance ==
    /\ HasBundle
    /\ CovarianceNotInvertible
    /\ \E v \in NodeSet(G) : metrics.anomaly_scores[v] = NaN

\* eigenvector_centrality does not converge within the iteration cap of one
\* of its two calls.
EigenvectorNotConverging ==
    \/ eigenvector_fails(G, EigenvectorMaxIter)
    \/ eigenvector_fails(G, EigenvectorDefaultMaxIter)

\* C20: when eigenvector centrality does not converge within its iteration
\* cap the run does not abort: the call returns a bundle in which every node
\* has its centrality entry.
C20_NonConvergenceDoesNotAbort ==
    (CallEnded /\ EigenvectorNotConverging) =>
        /\ pc # "raised"
        /\ HasBundle
        /\ DOMAIN metrics.centrality_scores = NodeSet(G)

\* A library call inside _calculate_centrality_metrics has raised.
CentralityFailed == lib.centrality_raised # "none"

\* C21: an error raised inside one analytics component does not abort the
\* run: calculate_network_metrics still returns a bundle, which holds the
\* other components' results.
C21_ComponentErrorDoesNotAbort ==
    (CallEnded /\ CentralityFailed) =>
        /\ pc # "raised"
        /\ HasBundle
        /\ DOMAIN metrics.community_membership = NodeSet(G)

\* C22: of two successive calls of calculate_network_metrics on the same
\* graph, the second returns the bundle the first returned: the same
\* community_membership, patterns and cycles, and equal centrality and
\* anomaly values.
C22_MetricsCallIdempotent ==
    [][(MetricsReturned /\ pc' = "metrics") => metrics' = metrics]_vars

ComponentOf(v) == ReachableFrom(G, {v})

\* C25: each of the three partitionings that feed the vote (modularity,
\* label propagation, hierarchical) maps every node to the id of the
\* community that contains it; in particular the label-propagation vote of
\* a node is the index of its label-propagation community. A community of
\* any of the three lies within one connected component (a label spreads
\* along edges only), so two nodes of different components are in different
\* communities and their votes differ, in each of the three positions.
C25_VotesAreCommunityIds ==
    (CallEnded /\ HasBundle) =>
        /\ DOMAIN louvain = NodeSet(G)
        /\ DOMAIN lib.girvan_newman = NodeSet(G)
        /\ \A u \in NodeSet(G), v \in NodeSet(G) :
              v \notin ComponentOf(u) =>
                  \A k \in 1..3 : Votes(u)[k] # Votes(v)[k]

\* The call ended with networkx's non-convergence exception.
RaisedNonConvergence ==
    /\ metrics.kind = "raised"
    /\ metrics.raised = "PowerIterationFailedConvergence"

\* C26: within one run every eigenvector-centrality computation, the one of
\* centrality_scores and the one of the anomaly features alike, is capped at
\* 1000 iterations, and the anomaly scores are computed after the
\* centrality scores and from the same values. So on a graph on which the
\* centrality step completes, the eigenvector centrality converging within
\* 1000 iterations, the run does not end with a non-convergence exception:
\* the anomaly step computes the same value under the same cap.
C26_EigenvectorCapSharedByAnomaly ==
    (CallEnded /\ ~centrality_fails(G)) => ~RaisedNonConvergence

\* The entities the i-th temporal pattern of the bundle lists.
PatternEntities(i) == metrics.temporal_patterns[i].entities

C11_Witness ==
    /\ Ranked
    /\ \E v \in NodeSet(G) : Cardinality(ConsensusCommunity(v)) = 3
    /\ \E v \in NodeSet(G) : Cardinality(ConsensusCommunity(v)) < 3

============================================================================
